---- MODULE Spec2Model ----
(***************************************************************************)
(* Model of questdb::line_sender (include/questdb/line_sender.hpp), the    *)
(* C++ handle that owns a ::line_sender* and forwards every call to the C  *)
(* library.  The C library (line_sender.h / line_sender.c) is modelled     *)
(* from the specification of the record builder, the buffer and the        *)
(* must_close latch; the handle, its move operations, close(), the         *)
(* destructor and the error translation are modelled from the header.      *)
(*                                                                         *)
(* A byte is a one-character string; "xFF" stands for the byte 0xFF, which *)
(* never occurs in well-formed UTF-8.  A text is a sequence of bytes.      *)
(***************************************************************************)
EXTENDS Integers, Sequences, FiniteSets, TLC

\* ---------------------------------------------------------------- bounds
MaxConnect == 2
MaxBuf == 10
MaxWire == 6
MaxMoveBytes == 4
MaxSymbols == 2
MaxColumns == 2
MaxText == 3

\* ------------------------------------------------------------ input sets
Senders == {"a", "b"}
Names == {<<"n">>, <<>>, <<"n", " ">>}
SymbolValues == {<<"v">>, <<"w">>, <<"xFF">>}
TextValues == {<<"\"">>, <<"xFF">>}
BoolValues == {TRUE}
I64Values == {7}
F64Values == {[whole |-> 2, tenths |-> 5]}
Timestamps == {1}
ConnectOutcomes == {"connected", "unresolved", "refused"}

\* ------------------------------------------------------------- the handle
NULL == 0
Handles == 1..MaxConnect

\* enum class line_sender_error_code, by position (from_c casts the C code)
could_not_resolve_addr == 0
invalid_api_call == 1
socket_error == 2
invalid_utf8 == 3
invalid_identifier == 4

line_sender_error_code ==
    <<"could_not_resolve_addr", "invalid_api_call", "socket_error",
      "invalid_utf8", "invalid_identifier">>

VARIABLES
    alive,         \* line_sender objects constructed and not yet destroyed
    _impl,         \* line_sender::_impl of each object (NULL: owns nothing)
    c_live,        \* each C sender object: "free", "open" or "closed"
    c_state,       \* its builder state
    c_has_column,  \* whether the record in progress has a column
    c_buffer,      \* its Record Buffer
    c_must_close,  \* its must_close flag
    wire,          \* the bytes its Transport has taken while connected
    released,      \* how many times its Transport was released
    last,          \* the last call: what it returned or threw
    script         \* the calls a scripted caller makes, and the next one

vars == <<alive, _impl, c_live, c_state, c_has_column, c_buffer,
          c_must_close, wire, released, last, script>>

\* A caller that follows no script.
NoScript == [calls |-> <<>>, pos |-> 1]

Scripted == script.calls # <<>>

heap == <<c_state, c_has_column, c_buffer, c_must_close>>

\* ------------------------------------------------------------- validator
is_valid_utf8(bytes) == \A i \in 1..Len(bytes) : bytes[i] # "xFF"

is_legal_identifier(name) ==
    /\ Len(name) > 0
    /\ \A i \in 1..Len(name) : name[i] # " "

\* ---------------------------------------------------------------- encoding
Digit == <<"0", "1", "2", "3", "4", "5", "6", "7", "8", "9">>

RECURSIVE Decimal(_)
Decimal(n) ==
    IF n < 0 THEN <<"-">> \o Decimal(0 - n)
    ELSE IF n < 10 THEN <<Digit[n + 1]>>
    ELSE Decimal(n \div 10) \o <<Digit[(n % 10) + 1]>>

RECURSIVE Escape(_)
Escape(text) ==
    IF text = <<>> THEN <<>>
    ELSE IF Head(text) \in {"\"", "\\"}
         THEN <<"\\", Head(text)>> \o Escape(Tail(text))
         ELSE <<Head(text)>> \o Escape(Tail(text))

EncodeBool(v) == IF v THEN <<"t">> ELSE <<"f">>
EncodeI64(v) == Decimal(v) \o <<"i">>
EncodeF64(v) == Decimal(v.whole) \o <<".">> \o Decimal(v.tenths)
EncodeStr(v) == <<"\"">> \o Escape(v) \o <<"\"">>

\* ------------------------------------------------- the C library's sender
Object(h) ==
    [state |-> c_state[h], has_column |-> c_has_column[h],
     buffer |-> c_buffer[h], must_close |-> c_must_close[h]]

Fresh ==
    [state |-> "AwaitingTable", has_column |-> FALSE,
     buffer |-> <<>>, must_close |-> FALSE]

\* The outcome of a C call: ok, the error code when not ok, the sender
\* object afterwards, and what the call did on the Transport.
Rejected(h, e) ==
    [ok |-> FALSE, err |-> e, io |-> "none",
     obj |-> IF h = NULL THEN Fresh ELSE Object(h)]

Accepted(h, st, hc, buf) ==
    [ok |-> TRUE, err |-> 0, io |-> "none",
     obj |-> [state |-> st, has_column |-> hc, buffer |-> buf,
              must_close |-> c_must_close[h]]]

Usable(h) == h # NULL /\ ~c_must_close[h]

InRecord(h) == c_state[h] = "AwaitingFieldsOrTimestamp"

ColumnPrefix(h, name) ==
    c_buffer[h] \o (IF c_has_column[h] THEN <<",">> ELSE <<" ">>)
                \o name \o <<"=">>

line_sender_table(h, name) ==
    IF ~Usable(h) THEN Rejected(h, invalid_api_call)
    ELSE IF InRecord(h) THEN Rejected(h, invalid_api_call)
    ELSE IF ~is_legal_identifier(name) THEN Rejected(h, invalid_identifier)
    ELSE Accepted(h, "AwaitingFieldsOrTimestamp", FALSE, c_buffer[h] \o name)

line_sender_symbol(h, name, value) ==
    IF ~Usable(h) THEN Rejected(h, invalid_api_call)
    ELSE IF ~InRecord(h) \/ c_has_column[h] THEN Rejected(h, invalid_api_call)
    ELSE IF ~is_legal_identifier(name) THEN Rejected(h, invalid_identifier)
    ELSE IF ~is_valid_utf8(value) THEN Rejected(h, invalid_utf8)
    ELSE Accepted(h, "AwaitingFieldsOrTimestamp", FALSE,
                  c_buffer[h] \o <<",">> \o name \o <<"=">> \o value)

line_sender_column(h, name, encoded) ==
    IF ~Usable(h) THEN Rejected(h, invalid_api_call)
    ELSE IF ~InRecord(h) THEN Rejected(h, invalid_api_call)
    ELSE IF ~is_legal_identifier(name) THEN Rejected(h, invalid_identifier)
    ELSE Accepted(h, "AwaitingFieldsOrTimestamp", TRUE,
                  ColumnPrefix(h, name) \o encoded)

line_sender_column_bool(h, name, value) ==
    line_sender_column(h, name, EncodeBool(value))

line_sender_column_i64(h, name, value) ==
    line_sender_column(h, name, EncodeI64(value))

line_sender_column_f64(h, name, value) ==
    line_sender_column(h, name, EncodeF64(value))

line_sender_column_str(h, name, value) ==
    IF Usable(h) /\ InRecord(h) /\ is_legal_identifier(name)
       /\ ~is_valid_utf8(value)
    THEN Rejected(h, invalid_utf8)
    ELSE line_sender_column(h, name, EncodeStr(value))

line_sender_at(h, timestamp) ==
    IF ~Usable(h) THEN Rejected(h, invalid_api_call)
    ELSE IF ~InRecord(h) THEN Rejected(h, invalid_api_call)
    ELSE Accepted(h, "AwaitingTable", FALSE,
                  c_buffer[h] \o <<" ">> \o Decimal(timestamp) \o <<"\n">>)

line_sender_at_now(h) ==
    IF ~Usable(h) THEN Rejected(h, invalid_api_call)
    ELSE IF ~InRecord(h) THEN Rejected(h, invalid_api_call)
    ELSE Accepted(h, "AwaitingTable", FALSE, c_buffer[h] \o <<"\n">>)

line_sender_pending_size(h) == Len(c_buffer[h])

line_sender_must_close(h) == c_must_close[h]

\* written: whether the Transport accepts the bytes handed to it.
line_sender_flush(h, written) ==
    IF h = NULL THEN Rejected(h, invalid_api_call)
    ELSE IF c_must_close[h] THEN Rejected(h, socket_error)
    ELSE IF InRecord(h) THEN Rejected(h, invalid_api_call)
    ELSE IF written
         THEN [ok |-> TRUE, err |-> 0, io |-> "sent",
               obj |-> [Object(h) EXCEPT !.buffer = <<>>]]
         ELSE [ok |-> FALSE, err |-> socket_error, io |-> "failed",
               obj |-> [Object(h) EXCEPT !.must_close = TRUE]]

\* ------------------------------------------------------ line_sender_error
\* from_c reading the C code one enumerator late
from_c_shifted(c_err) == line_sender_error_code[((c_err + 1) % 5) + 1]

from_c(c_err) == line_sender_error_code[c_err + 1]

\* wrapped_call with its test of the C call's result inverted
wrapped_call_inverted(r) == IF r.ok THEN from_c(r.err) ELSE "ok"

wrapped_call(r) == IF ~r.ok THEN from_c(r.err) ELSE "ok"

\* ------------------------------------------------------------ line_sender
Result(op, s, code, ret, flag, io) ==
    [op |-> op, s |-> s, code |-> code, ret |-> ret, flag |-> flag, io |-> io]

\* What a forwarded call leaves behind: the sender object the C library
\* updated, the bytes the Transport took, the value returned or thrown.
Forward(s, op, r) ==
    LET h == _impl[s] IN
    /\ alive[s]
    /\ Scripted \/ Len(r.obj.buffer) <= MaxBuf
    /\ r.io = "sent" => Len(wire[h]) + Len(c_buffer[h]) <= MaxWire
    /\ IF h = NULL
       THEN UNCHANGED heap
       ELSE /\ c_state' = [c_state EXCEPT ![h] = r.obj.state]
            /\ c_has_column' = [c_has_column EXCEPT ![h] = r.obj.has_column]
            /\ c_buffer' = [c_buffer EXCEPT ![h] = r.obj.buffer]
            /\ c_must_close' = [c_must_close EXCEPT ![h] = r.obj.must_close]
    /\ wire' = IF r.io = "sent"
               THEN [wire EXCEPT ![h] = wire[h] \o c_buffer[h]]
               ELSE wire
    /\ last' = Result(op, s, wrapped_call(r), 0, FALSE, r.io)
    /\ UNCHANGED <<alive, _impl, c_live, released>>

\* table() calling ::line_sender_table without looking at its result
table_unchecked(s, name) ==
    Forward(s, "table", [line_sender_table(_impl[s], name) EXCEPT !.ok = TRUE])

table(s, name) == Forward(s, "table", line_sender_table(_impl[s], name))

\* symbol() calling ::line_sender_symbol without looking at its result
symbol_unchecked(s, name, value) ==
    Forward(s, "symbol",
            [line_sender_symbol(_impl[s], name, value) EXCEPT !.ok = TRUE])

\* symbol() passing the value where the name goes and the name as value
symbol_swapped(s, name, value) ==
    Forward(s, "symbol", line_sender_symbol(_impl[s], value, name))

symbol(s, name, value) ==
    Forward(s, "symbol", line_sender_symbol(_impl[s], name, value))

column_bool(s, name, value) ==
    Forward(s, "column", line_sender_column_bool(_impl[s], name, value))

\* column(int64_t) calling the C library without looking at its result
column_i64_unchecked(s, name, value) ==
    Forward(s, "column",
            [line_sender_column_i64(_impl[s], name, value) EXCEPT !.ok = TRUE])

column_i64(s, name, value) ==
    Forward(s, "column", line_sender_column_i64(_impl[s], name, value))

column_f64(s, name, value) ==
    Forward(s, "column", line_sender_column_f64(_impl[s], name, value))

\* column() passing value.size() - 1 as the length of the text
column_str_short(s, name, value) ==
    Forward(s, "column",
            line_sender_column_str(_impl[s], name,
                                   SubSeq(value, 1, Len(value) - 1)))

column_str(s, name, value) ==
    Forward(s, "column", line_sender_column_str(_impl[s], name, value))

\* at() forwarding to ::line_sender_flush
at_flushes(s, timestamp) ==
    Forward(s, "at", line_sender_flush(_impl[s], TRUE))

at(s, timestamp) == Forward(s, "at", line_sender_at(_impl[s], timestamp))

\* at_now() calling ::line_sender_at_now without looking at its result
at_now_unchecked(s) ==
    Forward(s, "at_now", [line_sender_at_now(_impl[s]) EXCEPT !.ok = TRUE])

at_now(s) == Forward(s, "at_now", line_sender_at_now(_impl[s]))

\* flush() returning quietly when the sender owns nothing, as
\* pending_size(), must_close() and close() do
flush_quiet(s, written) ==
    IF _impl[s] = NULL
    THEN /\ alive[s]
         /\ last' = Result("flush", s, "ok", 0, FALSE, "none")
         /\ UNCHANGED <<alive, _impl, c_live, heap, wire, released>>
    ELSE Forward(s, "flush", line_sender_flush(_impl[s], written))

\* flush() calling ::line_sender_flush without looking at its result
flush_unchecked(s, written) ==
    Forward(s, "flush",
            [line_sender_flush(_impl[s], written) EXCEPT !.ok = TRUE])

flush(s, written) ==
    Forward(s, "flush", line_sender_flush(_impl[s], written))

\* pending_size() forwarding to ::line_sender_must_close
pending_size_ret_flag(s) ==
    IF _impl[s] # NULL
    THEN (IF line_sender_must_close(_impl[s]) THEN 1 ELSE 0)
    ELSE 0

\* The value pending_size() returns.
pending_size_ret(s) ==
    IF _impl[s] # NULL THEN line_sender_pending_size(_impl[s]) ELSE 0

\* pending_size() forwarding to ::line_sender_flush
pending_size_flushes(s) ==
    Forward(s, "pending_size", line_sender_flush(_impl[s], TRUE))

pending_size(s) ==
    /\ alive[s]
    /\ last' = Result("pending_size", s, "ok", pending_size_ret(s), FALSE, "none")
    /\ UNCHANGED <<alive, _impl, c_live, heap, wire, released>>

\* must_close() forwarding to ::line_sender_pending_size
must_close_ret_size(s) ==
    IF _impl[s] # NULL THEN line_sender_pending_size(_impl[s]) > 0 ELSE FALSE

\* The value must_close() returns.
must_close_ret(s) ==
    IF _impl[s] # NULL THEN line_sender_must_close(_impl[s]) ELSE FALSE

must_close(s) ==
    /\ alive[s]
    /\ last' = Result("must_close", s, "ok", 0, must_close_ret(s), "none")
    /\ UNCHANGED <<alive, _impl, c_live, heap, wire, released>>

\* --------------------------------------------------- connection lifecycle
FreeHandles == {h \in Handles : c_live[h] = "free"}

\* ::line_sender_connect: a new sender object on a new Transport, or NULL
\* and the error of the step that failed.
line_sender_connect(outcome) ==
    IF outcome = "unresolved"
    THEN [impl |-> NULL, err |-> could_not_resolve_addr]
    ELSE IF outcome = "refused"
    THEN [impl |-> NULL, err |-> socket_error]
    ELSE [impl |-> CHOOSE h \in FreeHandles : \A g \in FreeHandles : h <= g,
          err |-> 0]

\* ::line_sender_close on each handle of H: the Transport is released and
\* the sender object freed.
line_sender_close(H) ==
    /\ c_live' = [h \in Handles |-> IF h \in H THEN "closed" ELSE c_live[h]]
    /\ released' = [h \in Handles |->
                       IF h \in H THEN released[h] + 1 ELSE released[h]]
    /\ c_state' = [h \in Handles |->
                       IF h \in H THEN Fresh.state ELSE c_state[h]]
    /\ c_has_column' = [h \in Handles |->
                       IF h \in H THEN Fresh.has_column ELSE c_has_column[h]]
    /\ c_buffer' = [h \in Handles |->
                       IF h \in H THEN Fresh.buffer ELSE c_buffer[h]]
    /\ c_must_close' = [h \in Handles |->
                       IF h \in H THEN Fresh.must_close ELSE c_must_close[h]]
    /\ wire' = [h \in Handles |-> IF h \in H THEN <<>> ELSE wire[h]]

\* the constructor without its "if (!_impl) throw"
connect_unchecked(s, outcome) ==
    LET c == line_sender_connect(outcome) IN
    /\ ~alive[s]
    /\ outcome = "connected" => FreeHandles # {}
    /\ alive' = [alive EXCEPT ![s] = TRUE]
    /\ _impl' = [_impl EXCEPT ![s] = c.impl]
    /\ c_live' = IF c.impl = NULL THEN c_live
                 ELSE [c_live EXCEPT ![c.impl] = "open"]
    /\ last' = Result("connect", s, "ok", 0, FALSE, "none")
    /\ UNCHANGED <<heap, wire, released>>

connect(s, outcome) ==
    LET c == line_sender_connect(outcome) IN
    /\ ~alive[s]
    /\ outcome = "connected" => FreeHandles # {}
    /\ IF c.impl = NULL
       THEN /\ last' = Result("connect", s, from_c(c.err), 0, FALSE, "none")
            /\ UNCHANGED <<alive, _impl, c_live>>
       ELSE /\ alive' = [alive EXCEPT ![s] = TRUE]
            /\ _impl' = [_impl EXCEPT ![s] = c.impl]
            /\ c_live' = [c_live EXCEPT ![c.impl] = "open"]
            /\ last' = Result("connect", s, "ok", 0, FALSE, "none")
    /\ UNCHANGED <<heap, wire, released>>

\* close(): the handles it hands to ::line_sender_close, and _impl after it.
close_calls(s) == IF _impl[s] # NULL THEN {_impl[s]} ELSE {}

\* close() without its "_impl = nullptr"
close_impl_kept(s) == _impl

close_impl(s) == [_impl EXCEPT ![s] = NULL]

close(s) ==
    /\ alive[s]
    /\ line_sender_close(close_calls(s))
    /\ _impl' = close_impl(s)
    /\ last' = Result("close", s, "ok", 0, FALSE, "none")
    /\ UNCHANGED alive

\* ~line_sender()
destroy(s) ==
    /\ alive[s]
    /\ line_sender_close(close_calls(s))
    /\ _impl' = close_impl(s)
    /\ alive' = [alive EXCEPT ![s] = FALSE]
    /\ last' = Result("destroy", s, "ok", 0, FALSE, "none")

\* line_sender(line_sender&& other): this is d, other is s.
\* the move constructor without its "other._impl = nullptr"
move_construct_impl_shared(d, s) == [_impl EXCEPT ![d] = _impl[s]]

move_construct_impl(d, s) ==
    IF d # s
    THEN [_impl EXCEPT ![d] = _impl[s], ![s] = NULL]
    ELSE [_impl EXCEPT ![d] = _impl[s]]

move_construct(d, s) ==
    /\ ~alive[d]
    /\ alive[s]
    /\ alive' = [alive EXCEPT ![d] = TRUE]
    /\ _impl' = move_construct_impl(d, s)
    /\ last' = Result("move_construct", d, "ok", 0, FALSE, "none")
    /\ UNCHANGED <<c_live, heap, wire, released>>

\* operator=(line_sender&& other): this is d, other is s.
move_assign_impl(d, s) ==
    IF d # s
    THEN [close_impl(d) EXCEPT ![d] = _impl[s], ![s] = NULL]
    ELSE _impl

\* the move assignment without its "close()"
move_assign_unclosed(d, s) ==
    /\ alive[d]
    /\ alive[s]
    /\ _impl' = move_assign_impl(d, s)
    /\ last' = Result("move_assign", d, "ok", 0, FALSE, "none")
    /\ UNCHANGED <<alive, c_live, heap, wire, released>>

move_assign(d, s) ==
    /\ alive[d]
    /\ alive[s]
    /\ line_sender_close(IF d # s THEN close_calls(d) ELSE {})
    /\ _impl' = move_assign_impl(d, s)
    /\ last' = Result("move_assign", d, "ok", 0, FALSE, "none")
    /\ UNCHANGED alive

\* ---------------------------------------------------------- specification
NoSender ==
    /\ alive = [s \in Senders |-> FALSE]
    /\ _impl = [s \in Senders |-> NULL]
    /\ c_live = [h \in Handles |-> "free"]
    /\ c_state = [h \in Handles |-> Fresh.state]
    /\ c_has_column = [h \in Handles |-> Fresh.has_column]
    /\ c_buffer = [h \in Handles |-> Fresh.buffer]
    /\ c_must_close = [h \in Handles |-> Fresh.must_close]
    /\ wire = [h \in Handles |-> <<>>]
    /\ released = [h \in Handles |-> 0]
    /\ last = Result("none", "a", "ok", 0, FALSE, "none")

Init == NoSender /\ script = NoScript

\* One sender object, every call of the interface.
Next ==
    \/ \E o \in ConnectOutcomes : connect("a", o) /\ UNCHANGED script
    \/ \E n \in Names : table("a", n) /\ UNCHANGED script
    \/ \E n \in Names, v \in SymbolValues : symbol("a", n, v) /\ UNCHANGED script
    \/ \E n \in Names, v \in BoolValues : column_bool("a", n, v) /\ UNCHANGED script
    \/ \E n \in Names, v \in I64Values : column_i64("a", n, v) /\ UNCHANGED script
    \/ \E n \in Names, v \in F64Values : column_f64("a", n, v) /\ UNCHANGED script
    \/ \E n \in Names, v \in TextValues : column_str("a", n, v) /\ UNCHANGED script
    \/ \E t \in Timestamps : at("a", t) /\ UNCHANGED script
    \/ at_now("a") /\ UNCHANGED script
    \/ pending_size("a") /\ UNCHANGED script
    \/ \E w \in BOOLEAN : flush("a", w) /\ UNCHANGED script
    \/ must_close("a") /\ UNCHANGED script
    \/ close("a") /\ UNCHANGED script
    \/ destroy("a") /\ UNCHANGED script

Spec == Init /\ [][Next]_vars

\* Two sender objects moved into one another, with the shortest records
\* and at most MaxMoveBytes bytes through each Transport.
MoveRoom(s) ==
    _impl[s] # NULL =>
        Len(wire[_impl[s]]) + Len(c_buffer[_impl[s]]) < MaxMoveBytes

NextMove ==
    \/ \E s \in Senders, o \in ConnectOutcomes : connect(s, o) /\ UNCHANGED script
    \/ \E d \in Senders, s \in Senders : move_construct(d, s) /\ UNCHANGED script
    \/ \E d \in Senders, s \in Senders : move_assign(d, s) /\ UNCHANGED script
    \/ \E s \in Senders : MoveRoom(s) /\ table(s, <<"n">>) /\ UNCHANGED script
    \/ \E s \in Senders : MoveRoom(s) /\ at_now(s) /\ UNCHANGED script
    \/ \E s \in Senders : pending_size(s) /\ UNCHANGED script
    \/ \E s \in Senders, w \in BOOLEAN : flush(s, w) /\ UNCHANGED script
    \/ \E s \in Senders : must_close(s) /\ UNCHANGED script
    \/ \E s \in Senders : close(s) /\ UNCHANGED script
    \/ \E s \in Senders : destroy(s) /\ UNCHANGED script

SpecMove == Init /\ [][NextMove]_vars

\* One sender object whose caller builds one record from a script: table,
\* symbols, columns, then at or at_now. Each call carries, as text, the
\* bytes its value has in the record.
Call(op, name, str, bool, int, float, text) ==
    [op |-> op, name |-> name, str |-> str, bool |-> bool, int |-> int,
     float |-> float, text |-> text]

NoFloat == [whole |-> 0, tenths |-> 0]

TableCall == Call("table", <<"n">>, <<>>, FALSE, 0, NoFloat, <<>>)

SymbolCalls ==
    {Call("symbol", <<"n">>, <<"v">>, FALSE, 0, NoFloat, <<"v">>),
     Call("symbol", <<"m">>, <<"w">>, FALSE, 0, NoFloat, <<"w">>)}

ColumnCalls ==
    {Call("column_bool", <<"n">>, <<>>, TRUE, 0, NoFloat, <<"t">>),
     Call("column_bool", <<"m">>, <<>>, FALSE, 0, NoFloat, <<"f">>),
     Call("column_i64", <<"n">>, <<>>, FALSE, 7, NoFloat, <<"7", "i">>),
     Call("column_i64", <<"m">>, <<>>, FALSE, 0 - 12, NoFloat,
          <<"-", "1", "2", "i">>),
     Call("column_f64", <<"n">>, <<>>, FALSE, 0, [whole |-> 2, tenths |-> 5],
          <<"2", ".", "5">>),
     Call("column_str", <<"m">>, <<"a">>, FALSE, 0, NoFloat,
          <<"\"", "a", "\"">>)}

EndCalls ==
    {Call("at", <<>>, <<>>, FALSE, 1, NoFloat, <<"1">>),
     Call("at", <<>>, <<>>, FALSE, 23, NoFloat, <<"2", "3">>),
     Call("at_now", <<>>, <<>>, FALSE, 0, NoFloat, <<>>)}

SeqsUpTo(S, n) == UNION {[1..k -> S] : k \in 0..n}

RecordScripts ==
    {<<TableCall>> \o syms \o cols \o <<end>> :
        syms \in SeqsUpTo(SymbolCalls, MaxSymbols),
        cols \in SeqsUpTo(ColumnCalls, MaxColumns),
        end \in EndCalls}

\* A record of one text column, for every text of a small alphabet.
Alphabet == {"a", "\"", "\\"}

TextScripts ==
    {<<TableCall,
       Call("column_str", <<"n">>, v, FALSE, 0, NoFloat, <<>>),
       Call("at_now", <<>>, <<>>, FALSE, 0, NoFloat, <<>>)>> :
        v \in SeqsUpTo(Alphabet, MaxText)}

InitScript ==
    /\ NoSender
    /\ script \in {[calls |-> c, pos |-> 1] : c \in RecordScripts \cup TextScripts}

\* The scripted caller is about to make a call of this kind.
Due(op) ==
    /\ alive["a"]
    /\ script.pos <= Len(script.calls)
    /\ script.calls[script.pos].op = op

Called == script' = [script EXCEPT !.pos = @ + 1]

NextCall == script.calls[script.pos]

NextScript ==
    \/ connect("a", "connected") /\ UNCHANGED script
    \/ Due("table") /\ table("a", NextCall.name) /\ Called
    \/ Due("symbol") /\ symbol("a", NextCall.name, NextCall.str) /\ Called
    \/ Due("column_bool") /\ column_bool("a", NextCall.name, NextCall.bool) /\ Called
    \/ Due("column_i64") /\ column_i64("a", NextCall.name, NextCall.int) /\ Called
    \/ Due("column_f64") /\ column_f64("a", NextCall.name, NextCall.float) /\ Called
    \/ Due("column_str") /\ column_str("a", NextCall.name, NextCall.str) /\ Called
    \/ Due("at") /\ at("a", NextCall.int) /\ Called
    \/ Due("at_now") /\ at_now("a") /\ Called

SpecScript == InitScript /\ [][NextScript]_vars

\* ------------------------------------------------------------------ claims
Calls == {"table", "symbol", "column", "at", "at_now", "flush"}

\* C1: once a call on a sender has failed with socket_error, must_close()
\* returns true, and from then on every table, symbol, column, at, at_now
\* and flush call on that sender fails, writes nothing to the Transport and
\* leaves must_close() true.
C1_FatalErrorDisablesSender ==
    /\ [](last.code = "socket_error" /\ last.op # "connect"
            => must_close_ret(last.s))
    /\ [][\A s \in Senders :
            (must_close_ret(s) /\ last'.s = s /\ last'.op \in Calls)
                => /\ last'.code # "ok"
                   /\ last'.io = "none"
                   /\ wire' = wire
                   /\ must_close_ret(s)']_vars

C1_Witness ==
    /\ last.op = "table"
    /\ last.code = "invalid_api_call"
    /\ must_close_ret(last.s)

\* C2: a flush whose Transport write fails raises socket_error, sets
\* must_close and leaves the buffer, and so pending_size(), as it was.
C2_FailedFlushKeepsBuffer ==
    [][\A s \in Senders :
        (last'.op = "flush" /\ last'.s = s /\ last'.io = "failed")
            => /\ last'.code = "socket_error"
               /\ must_close_ret(s)'
               /\ c_buffer' = c_buffer
               /\ pending_size_ret(s)' = pending_size_ret(s)]_vars

C2_Witness ==
    /\ last.op = "flush"
    /\ last.io = "failed"
    /\ last.code = "socket_error"
    /\ pending_size_ret(last.s) > 0

\* The bytes of the buffer up to and including its last record terminator.
CompleteLen(buf) ==
    LET ends == {i \in 1..Len(buf) : buf[i] = "\n"}
    IN IF ends = {} THEN 0 ELSE CHOOSE i \in ends : \A j \in ends : j <= i

CompleteBytes(s) ==
    IF _impl[s] = NULL THEN 0 ELSE CompleteLen(c_buffer[_impl[s]])

Owners(h) == {s \in Senders : alive[s] /\ _impl[s] = h}

Owned == {h \in Handles : Owners(h) # {}}

\* C4: close() never fails; on a sender that owns a Transport it releases
\* that Transport once and leaves the sender owning nothing; on a sender
\* that owns nothing (closed before, or moved from) close() and the
\* destructor change nothing but the object's lifetime; no Transport is
\* released twice.
C4_CloseIdempotent ==
    /\ [](\A h \in Handles : released[h] <= 1)
    /\ [](last.op \in {"close", "destroy"} =>
             last.code = "ok" /\ _impl[last.s] = NULL)
    /\ [][\A s \in Senders :
            (last'.op \in {"close", "destroy"} /\ last'.s = s) =>
                IF _impl[s] = NULL
                THEN UNCHANGED <<_impl, c_live, heap, wire, released>>
                ELSE /\ released' = [released EXCEPT ![_impl[s]] = @ + 1]
                     /\ c_live' = [c_live EXCEPT ![_impl[s]] = "closed"]
                     /\ _impl' = [_impl EXCEPT ![s] = NULL]]_vars

C4_Witness ==
    /\ last.op = "close"
    /\ alive[last.s]
    /\ \E h \in Handles : released[h] = 1 /\ c_must_close[h] = FALSE
    /\ \E h \in Handles : c_live[h] = "open" /\ released[h] = 0

\* C5: no two senders own the same Transport, a destroyed or moved-from
\* sender owns none, and a move hands the source's Transport to the
\* destination and leaves the source inert: owning nothing, pending_size()
\* 0, close() releasing nothing.
C5_ExclusiveOwnership ==
    /\ [](\A h \in Handles : Cardinality(Owners(h)) <= 1)
    /\ [](\A h \in Handles : c_live[h] = "open" <=> h \in Owned)
    /\ [][\A d \in Senders, s \in Senders, h \in Handles :
            (/\ last'.op \in {"move_construct", "move_assign"}
             /\ last'.s = d /\ d # s /\ alive[s]
             /\ _impl[s] = h /\ _impl'[d] = h)
                => /\ _impl'[s] = NULL
                   /\ pending_size_ret(s)' = 0
                   /\ close_calls(s)' = {}
                   /\ Owners(h)' = {d}]_vars

C5_Witness ==
    /\ last.op = "move_assign"
    /\ \E s \in Senders :
          /\ s # last.s /\ alive[s] /\ _impl[s] = NULL
          /\ _impl[last.s] # NULL
          /\ c_buffer[_impl[last.s]] # <<>>
    /\ \E h \in Handles : released[h] = 1

Recoverable == {"invalid_api_call", "invalid_utf8", "invalid_identifier"}

\* The sender object of s is in a record: table() succeeded on it and no
\* at() or at_now() has terminated that record.
RecordOpen(s) == _impl[s] # NULL /\ InRecord(_impl[s])

WholeRecords(bytes) == bytes = <<>> \/ bytes[Len(bytes)] = "\n"

\* C6: table() on a sender with a record in progress fails with
\* invalid_api_call and changes neither the builder state nor the buffer,
\* and the bytes of a record in progress never reach the Transport: a
\* Transport only ever holds whole records.
C6_TableInsideRecordRejected ==
    /\ [](\A h \in Handles : WholeRecords(wire[h]))
    /\ [][\A s \in Senders :
            (RecordOpen(s) /\ last'.op = "table" /\ last'.s = s)
                => /\ last'.code = "invalid_api_call"
                   /\ last'.io = "none"
                   /\ UNCHANGED <<heap, wire>>]_vars

C6_Witness ==
    /\ last.op = "table"
    /\ last.code = "invalid_api_call"
    /\ RecordOpen(last.s)
    /\ \E h \in Handles : wire[h] # <<>>

\* C7: symbol(), column(), at() and at_now() on an open sender with no
\* record in progress fail with invalid_api_call and append nothing.
C7_FieldOutsideRecordRejected ==
    [][\A s \in Senders :
        (/\ _impl[s] # NULL /\ ~RecordOpen(s)
         /\ last'.op \in {"symbol", "column", "at", "at_now"} /\ last'.s = s)
            => /\ last'.code = "invalid_api_call"
               /\ UNCHANGED <<heap, wire>>]_vars

C7_Witness ==
    /\ last.op = "at"
    /\ last.code = "invalid_api_call"
    /\ _impl[last.s] # NULL
    /\ ~c_must_close[_impl[last.s]]
    /\ c_buffer[_impl[last.s]] # <<>>
    /\ ~RecordOpen(last.s)

\* The bytes of the record in progress: what follows the last terminator.
Partial(buf) == SubSeq(buf, CompleteLen(buf) + 1, Len(buf))

\* Every line of the buffer has its symbol values before its first space,
\* the separator that opens the columns.
SymbolsFirst(buf) ==
    \A i \in 1..Len(buf), j \in 1..Len(buf) :
        (i < j /\ buf[i] = " " /\ buf[j] \in {"v", "w"})
            => \E k \in (i + 1)..(j - 1) : buf[k] = "\n"

\* C8: a symbol() that follows a successful column() in the same record
\* fails with invalid_api_call, and so does every symbol() while the record
\* in progress holds a column; in the buffer and on the Transport every
\* record has all its symbols before all its columns.
C8_SymbolAfterColumnRejected ==
    /\ [](\A h \in Handles : SymbolsFirst(c_buffer[h]) /\ SymbolsFirst(wire[h]))
    /\ [][\A s \in Senders :
            (/\ last'.op = "symbol" /\ last'.s = s
             /\ \/ last.op = "column" /\ last.code = "ok" /\ last.s = s
                \/ RecordOpen(s) /\ \E i \in 1..Len(Partial(c_buffer[_impl[s]])) :
                                        Partial(c_buffer[_impl[s]])[i] = " ")
                => /\ last'.code = "invalid_api_call"
                   /\ UNCHANGED <<heap, wire>>]_vars

C8_Witness ==
    /\ last.op = "symbol"
    /\ last.code = "invalid_api_call"
    /\ RecordOpen(last.s)
    /\ c_has_column[_impl[last.s]]
    /\ \E i \in 1..Len(c_buffer[_impl[last.s]]) :
          c_buffer[_impl[last.s]][i] \in {"v", "w"}

\* The calls the record grammar allows on sender object h succeed.
LegalNext(h) ==
    IF InRecord(h)
    THEN /\ wrapped_call(line_sender_at_now(h)) = "ok"
         /\ wrapped_call(line_sender_at(h, 1)) = "ok"
         /\ wrapped_call(line_sender_column_bool(h, <<"n">>, TRUE)) = "ok"
         /\ c_has_column[h] \/
               wrapped_call(line_sender_symbol(h, <<"n">>, <<"v">>)) = "ok"
    ELSE /\ wrapped_call(line_sender_table(h, <<"n">>)) = "ok"
         /\ wrapped_call(line_sender_flush(h, TRUE)) = "ok"

C10_FlushOnDeadSenderRejected ==
    [][\A s \in Senders :
        (last'.op = "flush" /\ last'.s = s) =>
            /\ _impl[s] = NULL =>
                  /\ last'.code = "invalid_api_call"
                  /\ last'.io = "none"
                  /\ UNCHANGED <<heap, wire>>
            /\ (_impl[s] # NULL /\ must_close_ret(s)) =>
                  /\ last'.code = "socket_error"
                  /\ last'.io = "none"
                  /\ UNCHANGED <<heap, wire>>]_vars

C10_Witness ==
    /\ last.op = "flush"
    /\ last.code = "invalid_api_call"
    /\ alive[last.s]
    /\ _impl[last.s] = NULL
    /\ \E s \in Senders :
          /\ alive[s] /\ _impl[s] # NULL
          /\ c_must_close[_impl[s]]
          /\ c_buffer[_impl[s]] # <<>>

\* C11 as stated: once must_close() returns true for a sender object, no
\* later call on that object, close() included, makes it return false.
C11_Original ==
    [][\A s \in Senders :
        (alive[s] /\ must_close_ret(s) /\ alive'[s]) => must_close_ret(s)']_vars

\* C11: once must_close() returns true for a sender object, no table,
\* symbol, column, at, at_now, flush, pending_size or must_close call on it
\* makes it return false; close() does: a sender that owns nothing reports
\* false.
C11_LatchUntilClose ==
    /\ [][\A s \in Senders :
            (/\ must_close_ret(s) /\ last'.s = s
             /\ last'.op \in Calls \cup {"pending_size", "must_close"})
                => must_close_ret(s)']_vars
    /\ [](last.op = "must_close" => last.flag = must_close_ret(last.s))
    /\ [](last.op = "close" => ~must_close_ret(last.s))

C11_Witness ==
    /\ last.op = "must_close"
    /\ last.flag
    /\ pending_size_ret(last.s) > 0

\* C12: a construction whose connection setup fails throws
\* could_not_resolve_addr (address not resolved) or socket_error (socket not
\* established), constructs no sender object and changes nothing else; a
\* construction that succeeds yields a sender owning a new open Transport;
\* no call other than construction throws could_not_resolve_addr.
C12_FailedConstructionYieldsNothing ==
    /\ [](last.code = "could_not_resolve_addr" => last.op = "connect")
    /\ [](from_c(line_sender_connect("unresolved").err)
              = "could_not_resolve_addr")
    /\ [](from_c(line_sender_connect("refused").err) = "socket_error")
    /\ [][last'.op = "connect" =>
            IF last'.code = "ok"
            THEN /\ alive'[last'.s] /\ ~alive[last'.s]
                 /\ _impl'[last'.s] \in Handles
                 /\ c_live[_impl'[last'.s]] = "free"
                 /\ c_live'[_impl'[last'.s]] = "open"
            ELSE /\ last'.code \in {"could_not_resolve_addr", "socket_error"}
                 /\ ~alive'[last'.s] /\ _impl'[last'.s] = NULL
                 /\ UNCHANGED <<alive, _impl, c_live, heap, wire,
                                released>>]_vars

C12_Witness ==
    /\ last.op = "connect"
    /\ last.code = "could_not_resolve_addr"
    /\ ~alive[last.s]
    /\ \E s \in Senders : alive[s] /\ _impl[s] # NULL

\* ------------------------------------------------------------------- C13
\* The bytes of a record as the wire format lays them out: the table name,
\* each symbol as ,name=value, the columns after one space and with a
\* comma between them, then a space and the timestamp, then the newline.
RECURSIVE SymbolBytes(_)
SymbolBytes(syms) ==
    IF syms = <<>> THEN <<>>
    ELSE <<",">> \o Head(syms).name \o <<"=">> \o Head(syms).text
         \o SymbolBytes(Tail(syms))

RECURSIVE CommaSeparated(_)
CommaSeparated(cols) ==
    IF cols = <<>> THEN <<>>
    ELSE Head(cols).name \o <<"=">> \o Head(cols).text
         \o (IF Len(cols) > 1 THEN <<",">> ELSE <<>>)
         \o CommaSeparated(Tail(cols))

ColumnBytes(cols) ==
    IF cols = <<>> THEN <<>> ELSE <<" ">> \o CommaSeparated(cols)

EndBytes(ends) ==
    IF ends = <<>> THEN <<>>
    ELSE IF Head(ends).op = "at" THEN <<" ">> \o Head(ends).text \o <<"\n">>
    ELSE <<"\n">>

RecordBytes(calls) ==
    LET tables == SelectSeq(calls, LAMBDA c : c.op = "table")
        syms == SelectSeq(calls, LAMBDA c : c.op = "symbol")
        cols == SelectSeq(calls, LAMBDA c : c.op \in {"column_bool",
                    "column_i64", "column_f64", "column_str"})
        ends == SelectSeq(calls, LAMBDA c : c.op \in {"at", "at_now"})
    IN (IF tables = <<>> THEN <<>> ELSE Head(tables).name)
       \o SymbolBytes(syms) \o ColumnBytes(cols) \o EndBytes(ends)

CallsMade == SubSeq(script.calls, 1, script.pos - 1)

\* C13: every call of an accepted sequence table, symbols, columns, at or
\* at_now succeeds, and after each of them the Record Buffer holds the
\* table name, the symbols as ,name=value in the order issued, the columns
\* in the order issued after one space and separated by commas, and for
\* at() a space and the decimal timestamp before the newline, for at_now()
\* the newline alone.
C13_RecordBytes ==
    (script.calls \in RecordScripts /\ alive["a"]) =>
        /\ last.code = "ok"
        /\ c_buffer[_impl["a"]] = RecordBytes(CallsMade)

C13_Witness ==
    /\ script.calls \in RecordScripts
    /\ script.pos > Len(script.calls)
    /\ last.op = "at"
    /\ c_buffer[_impl["a"]] =
         <<"n", ",", "m", "=", "w", ",", "n", "=", "v", " ", "m", "=", "-",
           "1", "2", "i", ",", "n", "=", "t", " ", "2", "3", "\n">>

\* ------------------------------------------------------------------- C14
\* What the calls of the builder would throw on the C sender h.
TableThrows(h) ==
    {wrapped_call(line_sender_table(h, n)) : n \in {<<"n">>}}

FieldThrows(h) ==
    {wrapped_call(line_sender_symbol(h, n, v)) :
        n \in Names, v \in SymbolValues}
    \cup {wrapped_call(line_sender_column_bool(h, n, v)) :
        n \in Names, v \in BoolValues}
    \cup {wrapped_call(line_sender_column_i64(h, n, v)) :
        n \in Names, v \in I64Values}
    \cup {wrapped_call(line_sender_column_f64(h, n, v)) :
        n \in Names, v \in F64Values}
    \cup {wrapped_call(line_sender_column_str(h, n, v)) :
        n \in Names, v \in TextValues}
    \cup {wrapped_call(line_sender_at(h, ts)) : ts \in Timestamps}
    \cup {wrapped_call(line_sender_at_now(h))}

\* C14: right after a successful at() or at_now() the record is terminated
\* and the builder awaits a table: the buffer ends with the newline,
\* table() with a legal name would be accepted, every symbol(), column(),
\* at() and at_now() would be rejected as invalid_api_call; and only a
\* successful at() or at_now() takes the builder of a sender out of a
\* record.
C14_AtTerminatesRecord ==
    /\ []((last.op \in {"at", "at_now"} /\ last.code = "ok") =>
            /\ _impl[last.s] # NULL
            /\ ~RecordOpen(last.s)
            /\ c_buffer[_impl[last.s]] # <<>>
            /\ WholeRecords(c_buffer[_impl[last.s]])
            /\ TableThrows(_impl[last.s]) = {"ok"}
            /\ FieldThrows(_impl[last.s]) = {"invalid_api_call"})
    /\ [][\A s \in Senders :
            (RecordOpen(s) /\ _impl'[s] = _impl[s] /\ ~RecordOpen(s)')
                => (last'.s = s /\ last'.op \in {"at", "at_now"}
                    /\ last'.code = "ok")]_vars

C14_Witness ==
    /\ last.op = "at" /\ last.code = "ok"
    /\ c_state[_impl[last.s]] = "AwaitingTable"
    /\ CompleteLen(c_buffer[_impl[last.s]]) = Len(c_buffer[_impl[last.s]])
    /\ Len(c_buffer[_impl[last.s]]) > 4

\* ------------------------------------------------------------------- C15
IsPrefix(a, b) == Len(a) <= Len(b) /\ SubSeq(b, 1, Len(a)) = a

\* This step is a successful flush() of the C sender h.
Flushed(h) ==
    last'.op = "flush" /\ last'.code = "ok" /\ _impl[last'.s] = h

\* C15: as long as a sender object stays connected, every step other than
\* a successful flush leaves its buffer a prefix of what it becomes: field
\* calls, failed calls and failed flushes only append, so the bytes of the
\* records already terminated stay where and what they were.
C15_BufferOnlyGrows ==
    [][\A h \in Handles :
        (c_live[h] = "open" /\ c_live'[h] = "open" /\ ~Flushed(h)) =>
            /\ IsPrefix(c_buffer[h], c_buffer'[h])
            /\ CompleteLen(c_buffer'[h]) >= CompleteLen(c_buffer[h])
            /\ SubSeq(c_buffer'[h], 1, CompleteLen(c_buffer[h]))
                = SubSeq(c_buffer[h], 1, CompleteLen(c_buffer[h]))]_vars

C15_Witness ==
    /\ last.op = "symbol" /\ last.code = "ok"
    /\ CompleteLen(c_buffer[_impl[last.s]]) > 0
    /\ Len(c_buffer[_impl[last.s]]) > CompleteLen(c_buffer[_impl[last.s]])
    /\ c_must_close[_impl[last.s]] = FALSE
    /\ wire[_impl[last.s]] # <<>>

\* ------------------------------------------------------------------- C16
\* The call of this step comes out of order for the builder of sender s:
\* a field or a timestamp outside a record, a table inside one, a symbol
\* after a column.
OutOfOrder(s) ==
    /\ last'.s = s
    /\ _impl[s] # NULL
    /\ ~c_must_close[_impl[s]]
    /\ \/ ~RecordOpen(s) /\ last'.op \in {"symbol", "column", "at", "at_now"}
       \/ RecordOpen(s) /\ last'.op = "table"
       \/ RecordOpen(s) /\ c_has_column[_impl[s]] /\ last'.op = "symbol"

\* C16: a call that comes out of order is rejected as invalid_api_call and
\* leaves the Record Buffer, the builder and the Transport exactly as they
\* were.
C16_OutOfOrderChangesNothing ==
    [][\A s \in Senders :
        OutOfOrder(s) =>
            /\ last'.code = "invalid_api_call"
            /\ c_buffer' = c_buffer
            /\ pending_size_ret(s)' = pending_size_ret(s)
            /\ UNCHANGED <<alive, _impl, c_live, heap, wire, released>>]_vars

C16_Witness ==
    /\ last.op = "column" /\ last.code = "invalid_api_call"
    /\ _impl[last.s] # NULL
    /\ ~c_must_close[_impl[last.s]]
    /\ ~RecordOpen(last.s)
    /\ CompleteLen(c_buffer[_impl[last.s]]) > 0

\* ------------------------------------------------------------------- C17
\* Everything the C sender h was given: what its Transport received, then
\* what its buffer still holds.
Stream(h) == wire[h] \o c_buffer[h]

\* C17: a successful flush() hands the Transport the whole buffer, which
\* holds terminated records only, and empties it; every other step leaves
\* what the Transport received alone; and the received bytes followed by
\* the buffered ones only grow at the end. So the Transport receives the
\* terminated records once each, in the order they were terminated.
C17_TransportGetsRecordsInOrder ==
    /\ [](\A h \in Handles : WholeRecords(wire[h]))
    /\ [][\A h \in Handles :
            (c_live[h] = "open" /\ c_live'[h] = "open") =>
                /\ IsPrefix(Stream(h), Stream(h)')
                /\ IF Flushed(h)
                   THEN /\ WholeRecords(c_buffer[h])
                        /\ wire'[h] = wire[h] \o c_buffer[h]
                        /\ c_buffer'[h] = <<>>
                        /\ last'.io = "sent"
                   ELSE wire'[h] = wire[h]]_vars

C17_Witness ==
    /\ last.op = "flush" /\ last.code = "ok" /\ last.io = "sent"
    /\ c_buffer[_impl[last.s]] = <<>>
    /\ CompleteLen(wire[_impl[last.s]]) = Len(wire[_impl[last.s]])
    /\ wire[_impl[last.s]] = <<"n", " ", "n", "=", "t", "\n">>

\* ------------------------------------------------------------------- C18
Special == {"\"", "\\"}

\* Undoing the escaping: a backslash stands for the character after it.
RECURSIVE Unescape(_)
Unescape(b) ==
    IF b = <<>> THEN <<>>
    ELSE IF Head(b) = "\\" /\ Len(b) >= 2
         THEN <<b[2]>> \o Unescape(SubSeq(b, 3, Len(b)))
         ELSE <<Head(b)>> \o Unescape(Tail(b))

\* No bare quote, and every backslash is followed by a quote or backslash.
RECURSIVE WellEscaped(_)
WellEscaped(b) ==
    IF b = <<>> THEN TRUE
    ELSE IF Head(b) = "\\"
         THEN Len(b) >= 2 /\ b[2] \in Special
              /\ WellEscaped(SubSeq(b, 3, Len(b)))
         ELSE Head(b) \notin Special /\ WellEscaped(Tail(b))

\* The text the scripted caller passes to column(), and what the buffer
\* holds between the quotes once that call and then at_now() are made.
TextValue == script.calls[2].str

QuotedBody ==
    SubSeq(c_buffer[_impl["a"]], 6,
           Len(c_buffer[_impl["a"]]) - (script.pos - 2))

\* C18: a text column value is written as name=, a double quote, the value
\* with one backslash before every double quote and every backslash and
\* every other character as it is, and a closing double quote; undoing the
\* escaping gives the value back, for every text over the alphabet.
C18_TextEscaping ==
    (script.calls \in TextScripts /\ script.pos >= 3 /\ alive["a"]) =>
        /\ last.code = "ok"
        /\ c_buffer[_impl["a"]] =
             <<"n", " ", "n", "=", "\"">> \o QuotedBody \o <<"\"">>
             \o (IF script.pos > 3 THEN <<"\n">> ELSE <<>>)
        /\ WellEscaped(QuotedBody)
        /\ Unescape(QuotedBody) = TextValue
        /\ Len(QuotedBody) = Len(TextValue)
             + Cardinality({i \in 1..Len(TextValue) : TextValue[i] \in Special})

C18_Witness ==
    /\ script.calls \in TextScripts
    /\ TextValue = <<"\"", "\\", "a">>
    /\ last.op = "column" /\ last.code = "ok"
    /\ c_buffer[_impl["a"]] =
         <<"n", " ", "n", "=", "\"", "\\", "\"", "\\", "\\", "a", "\"">>

\* ------------------------------------------------------------------- C19
\* The C sender h is released by this step and no other is.
ReleasesOnly(H) ==
    \A g \in Handles :
        IF g \in H
        THEN released'[g] = released[g] + 1 /\ c_live'[g] = "closed"
        ELSE released'[g] = released[g] /\ c_live'[g] = c_live[g]

\* C19: a connected Transport is open while exactly one live Sender owns
\* it and is released once, never twice; no Sender points at a released
\* one; when every Sender is destroyed none is left open. A move
\* assignment either changes nothing (onto itself) or releases what the
\* destination owned and takes over what the source owned; a move
\* construction releases nothing; close() and the destructor release what
\* the Sender owns.
C19_ReleasedExactlyOnce ==
    /\ [](\A h \in Handles :
            /\ released[h] <= 1
            /\ (c_live[h] = "closed") = (released[h] = 1)
            /\ (c_live[h] = "open") =
                 (\E s \in Senders : alive[s] /\ Owners(h) = {s}))
    /\ []((\A s \in Senders : ~alive[s]) =>
            (\A h \in Handles : c_live[h] # "open"))
    /\ [][last'.op = "move_assign" =>
            \/ UNCHANGED <<alive, _impl, c_live, heap, wire, released>>
            \/ \E src \in Senders \ {last'.s} :
                 /\ _impl'[last'.s] = _impl[src]
                 /\ _impl'[src] = NULL
                 /\ ReleasesOnly({_impl[last'.s]} \ {NULL})]_vars
    /\ [][last'.op = "move_construct" => ReleasesOnly({})]_vars
    /\ [][last'.op \in {"close", "destroy"} =>
            /\ ReleasesOnly({_impl[last'.s]} \ {NULL})
            /\ _impl'[last'.s] = NULL]_vars

C19_Witness ==
    /\ last.op = "move_assign"
    /\ \E h \in Handles, g \in Handles, s \in Senders :
         /\ h # g /\ s # last.s
         /\ released[h] = 1 /\ c_live[g] = "open" /\ released[g] = 0
         /\ _impl[last.s] = g
         /\ alive[s] /\ _impl[s] = NULL
         /\ c_buffer[g] # <<>>

====
